---- MODULE Spec2Model ----
(***************************************************************************)
(* Forward-mode dot product kernel (stan/agrad/fwd/matrix/dot_product.hpp) *)
(* and the Gumbel distribution kernel                                      *)
(* (stan/prob/distributions/univariate/continuous/gumbel.hpp).             *)
(*                                                                         *)
(* Part I models the twelve dot_product overloads as one state machine:    *)
(* a call validates its arguments, runs the reduction loop one iteration   *)
(* per step, and returns or fails.                                         *)
(***************************************************************************)
EXTENDS Integers, Sequences, FiniteSets, TLC

VARIABLES dcall, dpc, di, dret, derr, dprev,
          gcall, gpc, gck, logp, gout, gerr, gres, gn,
          inv_beta, log_beta, d_x1, d_x2, d_x3, gacc, gwrites, gtan, gprev

dvars == <<dcall, dpc, di, dret, derr, dprev>>
gvars == <<gcall, gpc, gck, logp, gout, gerr, gres, gn,
           inv_beta, log_beta, d_x1, d_x2, d_x3, gacc, gwrites, gtan, gprev>>
vars == <<dvars, gvars>>

(***************************************************************************)
(* Bounds of the model.                                                    *)
(***************************************************************************)
\* longest vector handed to dot_product
MaxLen == 2

\* values and tangents of the scalars handed to dot_product
DotVals == {-1, 2}
DotTangents == {0, 1}

Min(a, b) == IF a <= b THEN a ELSE b
Max(a, b) == IF a >= b THEN a ELSE b

SeqsUpTo(S, n) == UNION {[1..k -> S] : k \in 0..n}

(***************************************************************************)
(* fvar<T>: a value and a tangent.  A plain double is an integer.          *)
(***************************************************************************)
Fvar(v, t) == [val |-> v, d |-> t]

FvarElems == {Fvar(v, t) : v \in DotVals, t \in DotTangents}

\* operator* of fvar*fvar, fvar*double and double*fvar
FvarMul(k1, k2, a, b) ==
    IF k1 = "fvar" /\ k2 = "fvar"
    THEN Fvar(a.val * b.val, a.d * b.val + a.val * b.d)
    ELSE IF k1 = "fvar"
    THEN Fvar(a.val * b, a.d * b)
    ELSE Fvar(a * b.val, a * b.d)

\* operator+= of fvar
FvarAdd(r, p) == Fvar(r.val + p.val, r.d + p.d)

(***************************************************************************)
(* The arguments of a call.  An Eigen matrix is its rows, its columns and  *)
(* its coefficients in storage order; a std::vector has cols = 1 and       *)
(* rows = size().                                                          *)
(***************************************************************************)
ElemsOf(k) == IF k = "fvar" THEN FvarElems ELSE DotVals

Fill(n, e) == [j \in 1..n |-> e]

\* vectors: a column or a row of any coefficients
VectorArgs(k) ==
    {[rows |-> Len(s), cols |-> 1, data |-> s] : s \in SeqsUpTo(ElemsOf(k), MaxLen)}
    \cup {[rows |-> 1, cols |-> Len(s), data |-> s] : s \in SeqsUpTo(ElemsOf(k), MaxLen)}

\* matrices that are no vector: 0x0, and 2x2 with one repeated coefficient
MatrixArgs(k) ==
    {[rows |-> 0, cols |-> 0, data |-> <<>>]}
    \cup {[rows |-> 2, cols |-> 2, data |-> Fill(4, e)] : e \in ElemsOf(k)}

StdArgs(k) ==
    {[rows |-> Len(s), cols |-> 1, data |-> s] : s \in SeqsUpTo(ElemsOf(k), MaxLen)}

ArgsOf(container, k) ==
    IF container = "eigen" THEN VectorArgs(k) \cup MatrixArgs(k) ELSE StdArgs(k)

Size(m) == Len(m.data)

\* the overloads: which of the two arguments holds fvar
KindPairs == {<<"fvar", "fvar">>, <<"fvar", "double">>, <<"double", "fvar">>}

\* validate_vector: a single row or a single column
validate_vector(m) == m.rows = 1 \/ m.cols = 1

\* validate_matching_sizes: the two sizes are equal
validate_matching_sizes(a, b) == Size(a) = Size(b)

(***************************************************************************)
(* What the overloads do, in the order of their statements.                *)
(***************************************************************************)
\* a full-length overload that forgets validate_matching_sizes
ValidationsUnmatched(container, variant) ==
    IF container = "eigen" THEN <<"vector1", "vector2">> ELSE <<>>

\* the validations an overload runs before its loop
Validations(container, variant) ==
    IF container = "eigen"
    THEN IF variant = "full"
         THEN <<"vector1", "vector2", "matching">>
         ELSE <<"vector1", "vector2">>
    ELSE IF variant = "full" THEN <<"matching">> ELSE <<>>

Passes(check, c) ==
    IF check = "vector1" THEN validate_vector(c.v1)
    ELSE IF check = "vector2" THEN validate_vector(c.v2)
    ELSE validate_matching_sizes(c.v1, c.v2)

\* the validations of the call that fail
Failing(c) ==
    LET vs == Validations(c.container, c.variant)
    IN  {j \in 1..Len(vs) : ~Passes(vs[j], c)}

\* fvar<T> ret(0,0)
DotZero == Fvar(0, 0)

\* a loop of the explicit-length overload that runs to v1.size()
LoopBoundSize(c) == Size(c.v1)

\* the bound of the loop: v1.size(), or the length handed in
LoopBound(c) == IF c.variant = "full" THEN Size(c.v1) ELSE c.length

\* ret = v1(i) * v2(i)
DotOverwrite(c, r, a, b) == FvarMul(c.k1, c.k2, a, b)

\* ret += v1(i) * v2(i)
DotAccumulate(c, r, a, b) == FvarAdd(r, FvarMul(c.k1, c.k2, a, b))

\* v(i) and v.at(i) inside the storage
InRange(m, i) == i < Size(m)

\* what a read of coefficient i can yield: the coefficient, or, past the end
\* of an Eigen matrix (undefined behaviour), any value of the element type
ReadSet(container, k, m, i) ==
    IF InRange(m, i) THEN {m.data[i + 1]}
    ELSE IF container = "eigen" THEN ElemsOf(k) ELSE {}

(***************************************************************************)
(* The calls.                                                              *)
(***************************************************************************)
NoRet == <<>>

\* no call of the Gumbel kernel is in progress
GumbelIdle ==
    /\ gcall = <<>>
    /\ gpc = "idle"
    /\ gck = 0
    /\ logp = <<>>
    /\ gout = "none"
    /\ gerr = <<>>
    /\ gres = <<>>
    /\ gn = 0
    /\ inv_beta = <<>>
    /\ log_beta = <<>>
    /\ d_x1 = <<>>
    /\ d_x2 = <<>>
    /\ d_x3 = <<>>
    /\ gacc = {}
    /\ gwrites = <<>>
    /\ gtan = <<>>
    /\ gprev = <<>>

DotInit ==
    /\ \E c \in {"eigen", "std"}, kp \in KindPairs, v \in {"full", "length"} :
         \E a \in ArgsOf(c, kp[1]), b \in ArgsOf(c, kp[2]),
            n \in (IF v = "full" THEN {0} ELSE 0..MaxLen) :
           dcall = [container |-> c, k1 |-> kp[1], k2 |-> kp[2], variant |-> v,
                    v1 |-> a, v2 |-> b, length |-> n]
    /\ dpc = "call"
    /\ di = 0
    /\ dret = NoRet
    /\ derr = "none"
    /\ dprev = NoRet
    /\ GumbelIdle

\* the validations pass: ret(0,0) is constructed and the loop begins
DotValidateOk ==
    /\ dpc = "call"
    /\ Failing(dcall) = {}
    /\ dpc' = "loop"
    /\ dret' = <<DotZero>>
    /\ di' = 0
    /\ UNCHANGED <<dcall, derr, dprev>>

\* a validation fails: the call ends there
DotValidateFail ==
    /\ dpc = "call"
    /\ Failing(dcall) # {}
    /\ dpc' = "failed"
    /\ derr' = "ShapeMismatch"
    /\ UNCHANGED <<dcall, di, dret, dprev>>

\* one iteration of the loop
DotLoopStep ==
    /\ dpc = "loop"
    /\ di < LoopBound(dcall)
    /\ \E a \in ReadSet(dcall.container, dcall.k1, dcall.v1, di),
          b \in ReadSet(dcall.container, dcall.k2, dcall.v2, di) :
         dret' = <<DotAccumulate(dcall, dret[1], a, b)>>
    /\ di' = di + 1
    /\ UNCHANGED <<dcall, dpc, derr, dprev>>

\* std::vector::at past the end throws; an Eigen build with assertions aborts
DotLoopOutOfRange ==
    /\ dpc = "loop"
    /\ di < LoopBound(dcall)
    /\ ~InRange(dcall.v1, di) \/ ~InRange(dcall.v2, di)
    /\ dpc' = "failed"
    /\ derr' = IF dcall.container = "std" THEN "out_of_range" ELSE "assertion"
    /\ UNCHANGED <<dcall, di, dret, dprev>>

\* the loop ends and ret is returned
DotReturn ==
    /\ dpc = "loop"
    /\ di >= LoopBound(dcall)
    /\ dpc' = "done"
    /\ UNCHANGED <<dcall, di, dret, derr, dprev>>

\* the first `length` coefficients of a vector, in its orientation
Prefix(m, n) ==
    LET s == SubSeq(m.data, 1, n)
    IN  IF m.rows = 1 /\ m.cols # 1
        THEN [rows |-> 1, cols |-> n, data |-> s]
        ELSE [rows |-> n, cols |-> 1, data |-> s]

\* after an explicit-length call, the caller calls the full-length overload
\* on the two prefixes
DotCallOnPrefixes ==
    /\ dpc = "done"
    /\ dcall.variant = "length"
    /\ dprev = NoRet
    /\ dcall.length <= Min(Size(dcall.v1), Size(dcall.v2))
    /\ dprev' = <<[ret |-> dret[1], call |-> dcall]>>
    /\ dcall' = [dcall EXCEPT !.variant = "full",
                              !.v1 = Prefix(dcall.v1, dcall.length),
                              !.v2 = Prefix(dcall.v2, dcall.length),
                              !.length = 0]
    /\ dpc' = "call"
    /\ di' = 0
    /\ dret' = NoRet
    /\ derr' = "none"

DotNext ==
    \/ DotValidateOk /\ UNCHANGED gvars
    \/ DotValidateFail /\ UNCHANGED gvars
    \/ DotLoopStep /\ UNCHANGED gvars
    \/ DotLoopOutOfRange /\ UNCHANGED gvars
    \/ DotReturn /\ UNCHANGED gvars
    \/ DotCallOnPrefixes /\ UNCHANGED gvars

SpecDot == DotInit /\ [][DotNext]_vars

(***************************************************************************)
(* Properties of dot_product.                                              *)
(***************************************************************************)
ValueOf(k, e) == IF k = "fvar" THEN e.val ELSE e
TangentOf(k, e) == IF k = "fvar" THEN e.d ELSE 0

RECURSIVE SumOfValues(_, _)
SumOfValues(c, n) ==
    IF n = 0 THEN 0
    ELSE SumOfValues(c, n - 1)
         + ValueOf(c.k1, c.v1.data[n]) * ValueOf(c.k2, c.v2.data[n])

RECURSIVE SumOfDerivatives(_, _)
SumOfDerivatives(c, n) ==
    IF n = 0 THEN 0
    ELSE SumOfDerivatives(c, n - 1)
         + TangentOf(c.k1, c.v1.data[n]) * ValueOf(c.k2, c.v2.data[n])
         + ValueOf(c.k1, c.v1.data[n]) * TangentOf(c.k2, c.v2.data[n])

\* the two arguments differ in length, or one is an Eigen matrix that is
\* neither a single row nor a single column
Mismatched(c) ==
    \/ Size(c.v1) # Size(c.v2)
    \/ c.container = "eigen" /\ c.v1.rows # 1 /\ c.v1.cols # 1
    \/ c.container = "eigen" /\ c.v2.rows # 1 /\ c.v2.cols # 1

\* C1: a full-length dot_product that returns, returns the fvar whose value is
\* the sum of a[i].value*b[i].value and whose derivative is the sum of
\* a[i].derivative*b[i].value + a[i].value*b[i].derivative, a plain number
\* counting as derivative 0; two equal-length arguments always return, and
\* two empty ones return (0,0).
C1_FullDotProduct ==
    /\ (dpc = "done" /\ dcall.variant = "full") =>
          /\ Size(dcall.v1) = Size(dcall.v2)
          /\ dret = <<Fvar(SumOfValues(dcall, Size(dcall.v1)),
                           SumOfDerivatives(dcall, Size(dcall.v1)))>>
    /\ (dcall.variant = "full" /\ ~Mismatched(dcall)) => dpc # "failed"

C1_Witness ==
    /\ dpc = "done"
    /\ dcall.variant = "full"
    /\ dprev = NoRet
    /\ dcall.k1 = "fvar" /\ dcall.k2 = "fvar"
    /\ Size(dcall.v1) = 2
    /\ dret[1].val # 0
    /\ dret[1].d # 0

\* C2: for 0 <= length <= min(|a|,|b|), dot_product(a,b,length) returns, and
\* the full-length dot_product of the first `length` elements of a and of b
\* returns the same value and derivative.
C2_LengthEqualsPrefix ==
    /\ (dpc = "done" /\ dprev # NoRet) => dret = <<dprev[1].ret>>
    /\ dprev # NoRet => dpc # "failed"
    /\ (/\ dcall.variant = "length"
        /\ dcall.container = "eigen" =>
              /\ dcall.v1.rows = 1 \/ dcall.v1.cols = 1
              /\ dcall.v2.rows = 1 \/ dcall.v2.cols = 1
        /\ dcall.length <= Min(Size(dcall.v1), Size(dcall.v2))) => dpc # "failed"

C2_Witness ==
    /\ dpc = "done"
    /\ dprev # NoRet
    /\ dprev[1].call.length = 1
    /\ Size(dprev[1].call.v1) = 2
    /\ Size(dprev[1].call.v2) = 1
    /\ dret[1].d # 0

\* C3: a full-length dot_product of two arguments of different lengths, or of
\* an Eigen argument that is neither a row nor a column, fails with
\* ShapeMismatch: the loop is never entered, ret is never constructed and
\* nothing is returned.
C3_ShapeMismatchBeforeLoop ==
    (dcall.variant = "full" /\ Mismatched(dcall)) =>
        /\ dpc \in {"call", "failed"}
        /\ dpc = "failed" => derr = "ShapeMismatch"
        /\ di = 0
        /\ dret = NoRet

C3_Witness ==
    /\ dpc = "failed"
    /\ derr = "ShapeMismatch"
    /\ dcall.variant = "full"
    /\ Size(dcall.v1) = 2
    /\ Size(dcall.v2) = 1

(***************************************************************************)
(* Part II: gumbel_log and gumbel_cdf.                                     *)
(*                                                                         *)
(* A double is a dyadic rational n / 2^e in lowest terms, or NaN, or an    *)
(* infinity.  log and exp are taken to base 2, on arguments where they are *)
(* exact (logarithms of powers of two, exponentials of integers), so that  *)
(* every value the kernel computes is computed without rounding.           *)
(***************************************************************************)
\* longest sequence handed to the Gumbel kernel
MaxN == 2

Dy(n, e) == [n |-> n, e |-> e]

RECURSIVE Norm(_, _)
Norm(n, e) == IF e > 0 /\ n % 2 = 0 THEN Norm(n \div 2, e - 1) ELSE Dy(n, e)

Abs(n) == IF n < 0 THEN -n ELSE n
Log2(n) == CHOOSE k \in 0..30 : 2^k = n

DAdd(a, b) ==
    LET m == Max(a.e, b.e)
    IN  Norm(a.n * 2^(m - a.e) + b.n * 2^(m - b.e), m)
DNeg(a) == Dy(-a.n, a.e)
DSub(a, b) == DAdd(a, DNeg(b))
DMul(a, b) == Norm(a.n * b.n, a.e + b.e)
\* 1.0 / a, for a = +-2^k / 2^e
DInv(a) == Norm((IF a.n < 0 THEN -1 ELSE 1) * 2^a.e, Log2(Abs(a.n)))
DDiv(a, b) == DMul(a, DInv(b))
\* exp of an integer
DExp(a) == IF a.n >= 0 THEN Dy(2^a.n, 0) ELSE Dy(1, -a.n)
\* log of 2^k / 2^e
DLog(a) == Dy(Log2(a.n) - a.e, 0)

DZero == Dy(0, 0)
DOne == Dy(1, 0)

Fin(n) == [k |-> "fin", v |-> Dy(n, 0)]
NaN == [k |-> "nan", v |-> DZero]
Inf == [k |-> "inf", v |-> DZero]

\* the values of the arguments: y <= mu, and y - mu a multiple of beta
YElems == {Fin(-4), NaN}
MuElems == {Fin(0), Inf}
BetaElems == {Fin(2), Fin(4), Fin(0), Fin(-2)}

\* an argument is a scalar or a sequence (is_vector<T>)
Operands(E) ==
    {[vec |-> FALSE, x |-> <<e>>] : e \in E}
    \cup {[vec |-> TRUE, x |-> s] : s \in SeqsUpTo(E, MaxN)}

\* the tangents to_var reads from a differentiable operand of n elements
TangentVectors(n) == {[j \in 1..n |-> 1], [j \in 1..n |-> j + 1]}

\* stan::length
length(op) == Len(op.x)

\* max_size(y, mu, beta)
max_size(c) == Max(length(c.y), Max(length(c.mu), length(c.beta)))

\* is_constant_struct<T>::value of the three template arguments
is_constant(c, slot) ==
    IF slot = "y" THEN ~c.dy ELSE IF slot = "mu" THEN ~c.dmu ELSE ~c.dbeta

\* include_summand<propto, T...>::value: the term is kept unless propto is
\* set and every T is constant
include_summand(c, slots) ==
    ~c.propto \/ \E sl \in slots : ~is_constant(c, sl)

Arg(c, slot) == IF slot = "y" THEN c.y ELSE IF slot = "mu" THEN c.mu ELSE c.beta

(***************************************************************************)
(* The validation collaborator.                                            *)
(***************************************************************************)
check_not_nan(op) == \A j \in 1..Len(op.x) : op.x[j].k # "nan"
check_finite(op) == \A j \in 1..Len(op.x) : op.x[j].k = "fin"
check_positive(op) ==
    \A j \in 1..Len(op.x) : op.x[j].k = "inf" \/ (op.x[j].k = "fin" /\ op.x[j].v.n > 0)
\* the sequences among the arguments all have the common maximum length; a
\* scalar, of length 1, is consistent with any of them
check_consistent_sizes(c) ==
    \A sl \in {"y", "mu", "beta"} :
        Arg(c, sl).vec => length(Arg(c, sl)) = max_size(c)

\* the failure a check signals
ErrorOf(check) ==
    IF check = "consistent_sizes" THEN "ShapeMismatch" ELSE "DomainViolation"

\* gumbel_log validating the sizes before the scale
ChecksSizesFirst(fn) ==
    IF fn = "log"
    THEN << <<"not_nan", "y">>, <<"finite", "mu">>,
            <<"consistent_sizes", "all">>, <<"positive", "beta">> >>
    ELSE << <<"not_nan", "y">>, <<"finite", "mu">>, <<"not_nan", "beta">>,
            <<"positive", "beta">>, <<"consistent_sizes", "all">> >>

\* the checks of gumbel_log and of gumbel_cdf, in the order they are made
Checks(fn) ==
    IF fn = "log"
    THEN << <<"not_nan", "y">>, <<"finite", "mu">>,
            <<"positive", "beta">>, <<"consistent_sizes", "all">> >>
    ELSE << <<"not_nan", "y">>, <<"finite", "mu">>, <<"not_nan", "beta">>,
            <<"positive", "beta">>, <<"consistent_sizes", "all">> >>

CheckPasses(chk, c) ==
    IF chk[1] = "not_nan" THEN check_not_nan(Arg(c, chk[2]))
    ELSE IF chk[1] = "finite" THEN check_finite(Arg(c, chk[2]))
    ELSE IF chk[1] = "positive" THEN check_positive(Arg(c, chk[2]))
    ELSE check_consistent_sizes(c)

\* an empty check that looks at y alone
AnyEmptyYOnly(c) == ~(length(c.y) # 0)

\* !(length(y) && length(mu) && length(beta))
AnyEmpty(c) == ~(length(c.y) # 0 /\ length(c.mu) # 0 /\ length(c.beta) # 0)

\* return_type<T_y,T_loc,T_scale>::type
return_type(c) == IF c.dy \/ c.dmu \/ c.dbeta THEN "var" ELSE "double"

\* a constant converted to the return type
Plain(c, v) == [kind |-> return_type(c), val |-> v, d |-> DZero]

\* gumbel_log deciding the skip before it validates
AfterEmptyCheckSkipFirst(fn) == IF fn = "log" THEN "skipcheck" ELSE "validate"

\* where a call goes once no argument is empty
AfterEmptyCheck(fn) == "validate"

\* where a call goes once every check has passed
AfterChecks(fn) == IF fn = "log" THEN "skipcheck" ELSE "cdfloop"

\* double logp(0.0) and return_type cdf(1)
Identity(fn) == IF fn = "log" THEN DZero ELSE DOne

\* the template arguments: gumbel_log<propto> of every mix of differentiable
\* and constant arguments, and gumbel_cdf of double arguments
Instantiations ==
    {<<"log", f, t[1], t[2], t[3]>> : f \in BOOLEAN, t \in BOOLEAN \X BOOLEAN \X BOOLEAN}
    \cup {<<"cdf", FALSE, FALSE, FALSE, FALSE>>}

GumbelInit ==
    /\ \E f \in Instantiations :
         \E a \in Operands(YElems), b \in Operands(MuElems), s \in Operands(BetaElems) :
           gcall = [fn |-> f[1], propto |-> f[2], y |-> a, mu |-> b, beta |-> s,
                    dy |-> f[3], dmu |-> f[4], dbeta |-> f[5]]
    /\ gpc = "call"
    /\ gck = 0
    /\ logp = IF gcall.fn = "cdf" THEN <<Identity("cdf")>> ELSE <<>>
    /\ gout = "none"
    /\ gerr = <<>>
    /\ gres = <<>>
    /\ gn = 0
    /\ inv_beta = <<>>
    /\ log_beta = <<>>
    /\ d_x1 = <<>>
    /\ d_x2 = <<>>
    /\ d_x3 = <<>>
    /\ gacc = {}
    /\ gwrites = <<>>
    /\ gtan = <<>>
    /\ gprev = <<>>
    /\ dcall = <<>> /\ dpc = "idle" /\ di = 0 /\ dret = NoRet
    /\ derr = "none" /\ dprev = NoRet

\* a zero-length argument: the identity is returned at once
GEmptyReturn ==
    /\ gpc = "call"
    /\ AnyEmpty(gcall)
    /\ gpc' = "done"
    /\ gout' = "empty"
    /\ gres' = <<Plain(gcall, Identity(gcall.fn))>>
    /\ UNCHANGED <<gcall, gck, logp, gerr, gn, inv_beta, log_beta,
                   d_x1, d_x2, d_x3, gacc, gwrites, gtan, gprev>>

\* no argument is empty: logp is set up and validation begins
GEmptyPass ==
    /\ gpc = "call"
    /\ ~AnyEmpty(gcall)
    /\ gpc' = AfterEmptyCheck(gcall.fn)
    /\ gck' = 1
    /\ logp' = <<Identity(gcall.fn)>>
    /\ UNCHANGED <<gcall, gout, gerr, gres, gn, inv_beta, log_beta,
                   d_x1, d_x2, d_x3, gacc, gwrites, gtan, gprev>>

\* the next check passes
GCheckPass ==
    /\ gpc = "validate"
    /\ CheckPasses(Checks(gcall.fn)[gck], gcall)
    /\ IF gck = Len(Checks(gcall.fn))
       THEN gpc' = AfterChecks(gcall.fn) /\ gck' = gck
       ELSE gpc' = gpc /\ gck' = gck + 1
    /\ UNCHANGED <<gcall, logp, gout, gerr, gres, gn, inv_beta, log_beta,
                   d_x1, d_x2, d_x3, gacc, gwrites, gtan, gprev>>

\* the next check fails: the value accumulated so far is returned
GCheckFail ==
    /\ gpc = "validate"
    /\ ~CheckPasses(Checks(gcall.fn)[gck], gcall)
    /\ gpc' = "done"
    /\ gout' = "invalid"
    /\ gerr' = <<ErrorOf(Checks(gcall.fn)[gck][1]),
                 Checks(gcall.fn)[gck][1], Checks(gcall.fn)[gck][2]>>
    /\ gres' = <<Plain(gcall, logp[1])>>
    /\ UNCHANGED <<gcall, gck, logp, gn, inv_beta, log_beta,
                   d_x1, d_x2, d_x3, gacc, gwrites, gtan, gprev>>

(***************************************************************************)
(* Views, buffers and the accumulator.                                     *)
(***************************************************************************)
\* VectorView::operator[]: a scalar is returned for every index
Phys(op, n) == IF op.vec THEN n ELSE 0

\* the index falls inside the sequence behind the view
InView(op, n) == ~op.vec \/ n < length(op)

\* DoubleVectorView<used, is_vector>(n): n doubles, none written yet
AllocView(used, op) == IF used THEN [j \in 1..length(op) |-> <<>>] ELSE <<>>

\* OperandsAndPartials: one zero partial per element of a differentiable
\* operand, nothing for a constant one
AllocPartials(c, slot) ==
    IF is_constant(c, slot) THEN <<>>
    ELSE [j \in 1..length(Arg(c, slot)) |-> DZero]

\* the element of an argument that a view yields
Elem(op, p) == IF p < Len(op.x) THEN op.x[p + 1].v ELSE DZero

\* an element of a buffer, 0.0 where nothing was stored
Get(buf, p) == IF p < Len(buf) /\ buf[p + 1] # <<>> THEN buf[p + 1][1] ELSE DZero
Written(buf, p) == p < Len(buf) /\ buf[p + 1] # <<>>

\* buf[p] = v and buf[p] of a partial buffer
Store(buf, p, v) == IF p < Len(buf) THEN [buf EXCEPT ![p + 1] = v] ELSE buf
Load(buf, p) == IF p < Len(buf) THEN buf[p + 1] ELSE DZero

\* one use of an index on a view or buffer: which, the index, the length the
\* view was declared with, and whether the element was there to be read
Access(a, n, len, ok) == [a |-> a, i |-> n, len |-> len, ok |-> ok]

\* log_beta kept whatever propto says
IncludesLogBetaAlways(c) == TRUE

\* include_summand<propto,T_scale>::value
IncludesLogBeta(c) == include_summand(c, {"beta"})

\* !include_summand<propto,T_y,T_loc,T_scale>::value
SkipTaken(c) == ~include_summand(c, {"y", "mu", "beta"})

\* the arguments pass and nothing is to be computed: 0.0 is returned
GSkip ==
    /\ gpc = "skipcheck"
    /\ SkipTaken(gcall)
    /\ gpc' = "done"
    /\ gout' = "skipped"
    /\ gres' = <<Plain(gcall, DZero)>>
    /\ UNCHANGED <<gcall, gck, logp, gerr, gn, inv_beta, log_beta,
                   d_x1, d_x2, d_x3, gacc, gwrites, gtan, gprev>>

\* the accumulator, the views and the two buffers are constructed
GSetup ==
    /\ gpc = "skipcheck"
    /\ ~SkipTaken(gcall)
    /\ d_x1' = AllocPartials(gcall, "y")
    /\ d_x2' = AllocPartials(gcall, "mu")
    /\ d_x3' = AllocPartials(gcall, "beta")
    /\ inv_beta' = AllocView(TRUE, gcall.beta)
    /\ log_beta' = AllocView(IncludesLogBeta(gcall), gcall.beta)
    /\ gpc' = "precompute"
    /\ gn' = 0
    /\ UNCHANGED <<gcall, gck, logp, gout, gerr, gres, gacc, gwrites, gtan, gprev>>

\* a precompute loop that stops one element early
PrecomputeBoundShort(c) == length(c.beta) - 1

\* for (i = 0; i < length(beta); i++)
PrecomputeBound(c) == length(c.beta)

\* inv_beta[i] = 1.0 / value_of(beta_vec[i]); log_beta[i] = log(...)
GPrecomputeStep ==
    /\ gpc = "precompute"
    /\ gn < PrecomputeBound(gcall)
    /\ LET b == Elem(gcall.beta, Phys(gcall.beta, gn))
           lb == IncludesLogBeta(gcall)
           len == length(gcall.beta)
       IN  /\ inv_beta' = [inv_beta EXCEPT ![gn + 1] = <<DInv(b)>>]
           /\ log_beta' = IF lb THEN [log_beta EXCEPT ![gn + 1] = <<DLog(b)>>]
                          ELSE log_beta
           /\ gacc' = gacc \cup {Access("beta_vec", gn, len, InView(gcall.beta, gn)),
                                 Access("inv_beta", gn, len, gn < Len(inv_beta))}
                           \cup (IF lb THEN {Access("log_beta", gn, len, gn < Len(log_beta))}
                                 ELSE {})
    /\ gn' = gn + 1
    /\ UNCHANGED <<gcall, gpc, gck, logp, gout, gerr, gres,
                   d_x1, d_x2, d_x3, gwrites, gtan, gprev>>

\* size_t N = max_size(y, mu, beta): the reduction begins
GPrecomputeExit ==
    /\ gpc = "precompute"
    /\ gn >= PrecomputeBound(gcall)
    /\ gpc' = "reduce"
    /\ gn' = 0
    /\ UNCHANGED <<gcall, gck, logp, gout, gerr, gres, inv_beta, log_beta,
                   d_x1, d_x2, d_x3, gacc, gwrites, gtan, gprev>>

\* y_minus_mu_over_beta = (y_dbl - mu_dbl) * inv_beta[n]
YMinusMuOverBeta(y, mu, ib) == DMul(DSub(y, mu), ib)

\* logp -= log_beta[n]; logp += -z - exp(-z)
LogDensity(c, lp, z, lb) ==
    LET l1 == IF IncludesLogBeta(c) THEN DSub(lp, lb) ELSE lp
    IN  IF include_summand(c, {"y", "mu", "beta"})
        THEN DAdd(l1, DSub(DNeg(z), DExp(DNeg(z))))
        ELSE l1

\* scaled_diff = inv_beta[n] * exp(-y_minus_mu_over_beta)
ScaledDiff(ib, z) == DMul(ib, DExp(DNeg(z)))

\* d_x1[n] -= inv_beta[n] - scaled_diff
PartialY(old, ib, z) == DSub(old, DSub(ib, ScaledDiff(ib, z)))
\* d_x2[n] += inv_beta[n] - scaled_diff
PartialMu(old, ib, z) == DAdd(old, DSub(ib, ScaledDiff(ib, z)))
\* d_x3[n] += -inv_beta[n] + z * inv_beta[n] - scaled_diff * z
PartialBeta(old, ib, z) ==
    DAdd(old, DSub(DAdd(DNeg(ib), DMul(z, ib)), DMul(ScaledDiff(ib, z), z)))

\* if (!is_constant_struct<T>::value)
WritesSlot(c, slot) == ~is_constant(c, slot)

\* the partial buffers indexed by the iteration alone
PartialIndexZero(op, n) == 0

\* d_x[n]: the element of the partial buffer that index n names
PartialIndex(op, n) == Phys(op, n)

WriteLog(c, n) ==
    LET w(slot) == IF WritesSlot(c, slot)
                   THEN <<[slot |-> slot, i |-> n,
                           phys |-> PartialIndex(Arg(c, slot), n), iter |-> n]>>
                   ELSE <<>>
    IN  w("y") \o w("mu") \o w("beta")

\* one iteration of the reduction
GReduceStep ==
    /\ gpc = "reduce"
    /\ gn < max_size(gcall)
    /\ LET c == gcall
           y_dbl == Elem(c.y, Phys(c.y, gn))
           mu_dbl == Elem(c.mu, Phys(c.mu, gn))
           pb == Phys(c.beta, gn)
           ib == Get(inv_beta, pb)
           lb == Get(log_beta, pb)
           z == YMinusMuOverBeta(y_dbl, mu_dbl, ib)
           p1 == PartialIndex(c.y, gn)
           p2 == PartialIndex(c.mu, gn)
           p3 == PartialIndex(c.beta, gn)
       IN  /\ logp' = <<LogDensity(c, logp[1], z, lb)>>
           /\ d_x1' = IF WritesSlot(c, "y")
                      THEN Store(d_x1, p1, PartialY(Load(d_x1, p1), ib, z)) ELSE d_x1
           /\ d_x2' = IF WritesSlot(c, "mu")
                      THEN Store(d_x2, p2, PartialMu(Load(d_x2, p2), ib, z)) ELSE d_x2
           /\ d_x3' = IF WritesSlot(c, "beta")
                      THEN Store(d_x3, p3, PartialBeta(Load(d_x3, p3), ib, z)) ELSE d_x3
           /\ gacc' = gacc
                \cup {Access("y_vec", gn, length(c.y), InView(c.y, gn)),
                      Access("mu_vec", gn, length(c.mu), InView(c.mu, gn)),
                      Access("inv_beta", gn, length(c.beta), Written(inv_beta, pb))}
                \cup (IF IncludesLogBeta(c)
                      THEN {Access("log_beta", gn, length(c.beta), Written(log_beta, pb))}
                      ELSE {})
           /\ gwrites' = gwrites \o WriteLog(c, gn)
    /\ gn' = gn + 1
    /\ UNCHANGED <<gcall, gpc, gck, gout, gerr, gres, inv_beta, log_beta, gtan, gprev>>

RECURSIVE TangentDot(_, _, _)
TangentDot(t, p, n) ==
    IF n = 0 THEN DZero
    ELSE DAdd(TangentDot(t, p, n - 1), DMul(Dy(t[n], 0), p[n]))

\* OperandsAndPartials::to_var: a double when every operand is constant, else
\* the value with the derivative summed over the differentiable operands
to_var(c, lp, t, p1, p2, p3) ==
    IF return_type(c) = "double"
    THEN [kind |-> "double", val |-> lp, d |-> DZero]
    ELSE [kind |-> "var", val |-> lp,
          d |-> DAdd(TangentDot(t[1], p1, Len(p1)),
                     DAdd(TangentDot(t[2], p2, Len(p2)),
                          TangentDot(t[3], p3, Len(p3))))]

\* the tangents of the operands: those of a constant operand are not read
TangentsOf(c) ==
    {<<ty, tmu, tb>> :
        ty \in (IF c.dy THEN TangentVectors(length(c.y)) ELSE {<<>>}),
        tmu \in (IF c.dmu THEN TangentVectors(length(c.mu)) ELSE {<<>>}),
        tb \in (IF c.dbeta THEN TangentVectors(length(c.beta)) ELSE {<<>>})}

\* return operands_and_partials.to_var(0.0)
FinalizeArgZero(lp) == DZero

\* return operands_and_partials.to_var(logp)
FinalizeArg(lp) == lp

\* the reduction is over: to_var renders the result
GFinalize ==
    /\ gpc = "reduce"
    /\ gn >= max_size(gcall)
    /\ \E t \in TangentsOf(gcall) :
         /\ gtan' = t
         /\ gres' = <<to_var(gcall, FinalizeArg(logp[1]), t, d_x1, d_x2, d_x3)>>
    /\ gpc' = "done"
    /\ gout' = "value"
    /\ UNCHANGED <<gcall, gck, logp, gerr, gn, inv_beta, log_beta,
                   d_x1, d_x2, d_x3, gacc, gwrites, gprev>>

\* cdf *= exp(-exp(-(y_vec[n] - mu_vec[n]) / beta_vec[n]))
CdfFactor(y, mu, b) == DExp(DNeg(DExp(DDiv(DNeg(DSub(y, mu)), b))))

GCdfStep ==
    /\ gpc = "cdfloop"
    /\ gn < max_size(gcall)
    /\ LET c == gcall
           y == Elem(c.y, Phys(c.y, gn))
           mu == Elem(c.mu, Phys(c.mu, gn))
           b == Elem(c.beta, Phys(c.beta, gn))
       IN  /\ logp' = <<DMul(logp[1], CdfFactor(y, mu, b))>>
           /\ gacc' = gacc \cup {Access("y_vec", gn, length(c.y), InView(c.y, gn)),
                                 Access("mu_vec", gn, length(c.mu), InView(c.mu, gn)),
                                 Access("beta_vec", gn, length(c.beta), InView(c.beta, gn))}
    /\ gn' = gn + 1
    /\ UNCHANGED <<gcall, gpc, gck, gout, gerr, gres, inv_beta, log_beta,
                   d_x1, d_x2, d_x3, gwrites, gtan, gprev>>

\* return cdf
GCdfReturn ==
    /\ gpc = "cdfloop"
    /\ gn >= max_size(gcall)
    /\ gpc' = "done"
    /\ gout' = "value"
    /\ gres' = <<Plain(gcall, logp[1])>>
    /\ UNCHANGED <<gcall, gck, logp, gerr, gn, inv_beta, log_beta,
                   d_x1, d_x2, d_x3, gacc, gwrites, gtan, gprev>>

\* after gumbel_log<false> has returned its value, the caller evaluates
\* gumbel_log<true> on the same arguments
GCallProportional ==
    /\ gpc = "done"
    /\ gout = "value"
    /\ gcall.fn = "log"
    /\ ~gcall.propto
    /\ gprev = <<>>
    /\ gprev' = <<gres[1].val>>
    /\ gcall' = [gcall EXCEPT !.propto = TRUE]
    /\ gpc' = "call"
    /\ gck' = 0
    /\ logp' = <<>>
    /\ gout' = "none"
    /\ gerr' = <<>>
    /\ gres' = <<>>
    /\ gn' = 0
    /\ inv_beta' = <<>>
    /\ log_beta' = <<>>
    /\ d_x1' = <<>>
    /\ d_x2' = <<>>
    /\ d_x3' = <<>>
    /\ gacc' = {}
    /\ gwrites' = <<>>
    /\ gtan' = <<>>

GumbelNext ==
    \/ GEmptyReturn /\ UNCHANGED dvars
    \/ GEmptyPass /\ UNCHANGED dvars
    \/ GCheckPass /\ UNCHANGED dvars
    \/ GCheckFail /\ UNCHANGED dvars
    \/ GSkip /\ UNCHANGED dvars
    \/ GSetup /\ UNCHANGED dvars
    \/ GPrecomputeStep /\ UNCHANGED dvars
    \/ GPrecomputeExit /\ UNCHANGED dvars
    \/ GReduceStep /\ UNCHANGED dvars
    \/ GFinalize /\ UNCHANGED dvars
    \/ GCdfStep /\ UNCHANGED dvars
    \/ GCdfReturn /\ UNCHANGED dvars
    \/ GCallProportional /\ UNCHANGED dvars

SpecGumbel == GumbelInit /\ [][GumbelNext]_vars

Next == DotNext \/ GumbelNext
Init == DotInit \/ GumbelInit
Spec == Init /\ [][Next]_vars

(***************************************************************************)
(* Properties of gumbel_log and gumbel_cdf.                                *)
(***************************************************************************)
GArgs == <<gcall.y, gcall.mu, gcall.beta>>

SomeEmpty == \E j \in 1..3 : Len(GArgs[j].x) = 0

NothingComputed ==
    /\ inv_beta = <<>> /\ log_beta = <<>>
    /\ d_x1 = <<>> /\ d_x2 = <<>> /\ d_x3 = <<>>
    /\ gacc = {} /\ gwrites = <<>> /\ gtan = <<>>
    /\ gn = 0

\* C4: a gumbel_log or gumbel_cdf call with a zero-length y, location or scale
\* returns the identity (0.0 for gumbel_log, 1.0 for gumbel_cdf); no check is
\* made, no failure is signalled and no loop is entered, whatever the other
\* arguments hold.
C4_EmptyReturnsIdentity ==
    SomeEmpty =>
        /\ gpc \in {"call", "done"}
        /\ gck = 0
        /\ gerr = <<>>
        /\ NothingComputed
        /\ gpc = "done" =>
              /\ gout = "empty"
              /\ gres[1].val = (IF gcall.fn = "log" THEN Dy(0, 0) ELSE Dy(1, 0))
              /\ gres[1].d = Dy(0, 0)

C4_Witness ==
    /\ gpc = "done"
    /\ gout = "empty"
    /\ gcall.fn = "cdf"
    /\ Len(gcall.mu.x) = 0
    /\ Len(gcall.y.x) = 2 /\ gcall.y.x[1].k = "nan"
    /\ ~gcall.beta.vec /\ gcall.beta.x[1].v.n < 0

HasNaN(op) == \E j \in 1..Len(op.x) : op.x[j].k = "nan"
HasNonFinite(op) == \E j \in 1..Len(op.x) : op.x[j].k \in {"nan", "inf"}
HasNonPositive(op) == \E j \in 1..Len(op.x) : op.x[j].k = "fin" /\ op.x[j].v.n <= 0
LongestLength == Max(Len(gcall.y.x), Max(Len(gcall.mu.x), Len(gcall.beta.x)))
SizesDiffer == \E j \in 1..3 : GArgs[j].vec /\ Len(GArgs[j].x) # LongestLength

\* the failure gumbel_log is to end in: that of the first check, in the order
\* y not NaN, location finite, scale positive, sizes consistent, that fails
ExpectedFailure ==
    IF HasNaN(gcall.y) THEN <<"DomainViolation", "not_nan", "y">>
    ELSE IF HasNonFinite(gcall.mu) THEN <<"DomainViolation", "finite", "mu">>
    ELSE IF HasNonPositive(gcall.beta) THEN <<"DomainViolation", "positive", "beta">>
    ELSE IF SizesDiffer THEN <<"ShapeMismatch", "consistent_sizes", "all">>
    ELSE <<>>

ChecksBefore(f) ==
    IF f[2] = "not_nan" THEN 0 ELSE IF f[2] = "finite" THEN 1
    ELSE IF f[2] = "positive" THEN 2 ELSE 3

ElemAt(op, n) == IF op.vec THEN op.x[n + 1].v ELSE op.x[1].v

AllConstant == ~gcall.dy /\ ~gcall.dmu /\ ~gcall.dbeta

RECURSIVE SumLogBeta(_)
SumLogBeta(n) ==
    IF n = 0 THEN Dy(0, 0)
    ELSE DAdd(SumLogBeta(n - 1), DLog(ElemAt(gcall.beta, n - 1)))

BothReturned ==
    /\ gpc = "done"
    /\ gprev # <<>>
    /\ gout \in {"value", "skipped"}

\* C6 as stated: for every valid (y, mu, beta) and every mix of differentiable
\* and constant arguments, gumbel_log<false> minus gumbel_log<true> is
\* -log(beta), summed over the terms of the reduction.
C6_Original ==
    BothReturned =>
        DSub(gprev[1], gres[1].val) = DNeg(SumLogBeta(LongestLength))

\* C6 amended: with the scale constant and y or the location differentiable,
\* gumbel_log<false> minus gumbel_log<true> is minus the sum of log(beta[i])
\* over the N terms; with the scale differentiable the two values are equal;
\* with all three arguments constant gumbel_log<true> returns 0.0.
C6_ProportionalDifference ==
    BothReturned =>
        IF AllConstant
        THEN gout = "skipped" /\ gres[1].val = Dy(0, 0)
        ELSE /\ gout = "value"
             /\ IF gcall.dbeta
                THEN gprev[1] = gres[1].val
                ELSE DSub(gprev[1], gres[1].val) = DNeg(SumLogBeta(LongestLength))

C6_Witness ==
    /\ BothReturned
    /\ gcall.dy /\ ~gcall.dbeta
    /\ gcall.beta.vec /\ Len(gcall.beta.x) = 2
    /\ gcall.beta.x[1] # gcall.beta.x[2]
    /\ gprev[1] # gres[1].val

\* the log density of the N terms, as section 4.5 of the specification gives
\* it: -log(scale[i]) - z - exp(-z), z = (y[i] - location[i]) / scale[i]
RECURSIVE SummedLogProbability(_)
SummedLogProbability(n) ==
    IF n = 0 THEN Dy(0, 0)
    ELSE LET b == ElemAt(gcall.beta, n - 1)
             z == DDiv(DSub(ElemAt(gcall.y, n - 1), ElemAt(gcall.mu, n - 1)), b)
             norm == IF gcall.propto /\ ~gcall.dbeta THEN Dy(0, 0) ELSE DLog(b)
         IN  DAdd(SummedLogProbability(n - 1),
                  DSub(DSub(DNeg(norm), z), DExp(DNeg(z))))

RECURSIVE WeightedPartials(_, _, _)
WeightedPartials(t, buf, j) ==
    IF j > Len(buf) THEN Dy(0, 0)
    ELSE DAdd(DMul(Dy(t[j], 0), buf[j]), WeightedPartials(t, buf, j + 1))

\* C7: the to_var that ends gumbel_log returns a plain number equal to the
\* summed log-probability when y, location and scale are all constant;
\* otherwise it returns a differentiable value whose value is the summed
\* log-probability and whose derivative is the sum, over the differentiable
\* operands and the elements i of each, of operand[i].derivative times
\* partials[slot][i]; a constant operand has no partials and adds nothing.
C7_Finalize ==
    (gpc = "done" /\ gout = "value" /\ gcall.fn = "log") =>
        /\ gres[1].val = SummedLogProbability(LongestLength)
        /\ IF AllConstant
           THEN gres[1].kind = "double" /\ gres[1].d = Dy(0, 0)
           ELSE /\ gres[1].kind = "var"
                /\ gres[1].d =
                     DAdd(WeightedPartials(gtan[1], d_x1, 1),
                          DAdd(WeightedPartials(gtan[2], d_x2, 1),
                               WeightedPartials(gtan[3], d_x3, 1)))
        /\ ~gcall.dy => d_x1 = <<>> /\ gtan[1] = <<>>
        /\ ~gcall.dmu => d_x2 = <<>> /\ gtan[2] = <<>>
        /\ ~gcall.dbeta => d_x3 = <<>> /\ gtan[3] = <<>>
        /\ gcall.dy => Len(d_x1) = Len(gcall.y.x)
        /\ gcall.dmu => Len(d_x2) = Len(gcall.mu.x)
        /\ gcall.dbeta => Len(d_x3) = Len(gcall.beta.x)

C7_Witness ==
    /\ gpc = "done" /\ gout = "value" /\ gcall.fn = "log"
    /\ gcall.dy /\ ~gcall.dmu /\ gcall.dbeta
    /\ gcall.y.vec /\ Len(gcall.y.x) = 2
    /\ ~gcall.beta.vec
    /\ gtan[1] = <<2, 3>>
    /\ gres[1].d # Dy(0, 0)

\* C8: gumbel_log<true> of constant arguments that pass validation returns
\* 0.0 at once: the accumulator is not constructed and neither loop is
\* entered.  The skip is decided after the empty-input check and after every
\* validation check: with the same flags an empty argument ends in the empty
\* outcome and an invalid one in the validation failure, not in the skip.
C8_SkipAfterValidation ==
    (gcall.fn = "log" /\ gcall.propto /\ AllConstant) =>
        /\ gpc \in {"call", "validate", "skipcheck", "done"}
        /\ NothingComputed
        /\ gpc = "skipcheck" => ~SomeEmpty /\ ExpectedFailure = <<>> /\ gck = 4
        /\ gpc = "done" =>
              /\ gout = (IF SomeEmpty THEN "empty"
                         ELSE IF ExpectedFailure # <<>> THEN "invalid"
                         ELSE "skipped")
              /\ gres[1] = [kind |-> "double", val |-> Dy(0, 0), d |-> Dy(0, 0)]

C8_Witness ==
    /\ gpc = "done"
    /\ gout = "skipped"
    /\ gprev = <<>>
    /\ gcall.y.vec /\ Len(gcall.y.x) = 2
    /\ ~gcall.beta.vec

SlotArg(slot) == IF slot = "y" THEN gcall.y ELSE IF slot = "mu" THEN gcall.mu ELSE gcall.beta
SlotDiff(slot) == IF slot = "y" THEN gcall.dy ELSE IF slot = "mu" THEN gcall.dmu ELSE gcall.dbeta

WritesTo(slot, p) == {k \in 1..Len(gwrites) : gwrites[k].slot = slot /\ gwrites[k].phys = p}

\* C9 as stated: in the reduction of gumbel_log every element of a partial
\* buffer is written at most once, element i during iteration i alone, and a
\* constant slot is never written, for every mix of scalar and length-N
\* operands, a differentiable scalar broadcast against sequences included.
C9_Original ==
    \A k \in 1..Len(gwrites) :
        /\ SlotDiff(gwrites[k].slot)
        /\ gwrites[k].phys = gwrites[k].iter
        /\ Cardinality(WritesTo(gwrites[k].slot, gwrites[k].phys)) = 1

\* C9 amended: a constant slot is never written; the buffer of a
\* differentiable sequence operand has element i written once, during
\* iteration i, and no other; the buffer of a differentiable scalar operand
\* has one element, which every iteration of the reduction accumulates into.
C9_PartialWrites ==
    /\ \A k \in 1..Len(gwrites) :
        LET w == gwrites[k]
        IN  /\ SlotDiff(w.slot)
            /\ w.i = w.iter
            /\ w.iter < LongestLength
            /\ IF SlotArg(w.slot).vec
               THEN /\ w.phys = w.iter
                    /\ w.phys < Len(SlotArg(w.slot).x)
                    /\ Cardinality(WritesTo(w.slot, w.phys)) = 1
               ELSE /\ w.phys = 0
                    /\ \A j \in 1..Len(gwrites) :
                          (gwrites[j].slot = w.slot /\ gwrites[j].iter = w.iter) => j = k
    /\ (gpc = "done" /\ gout = "value" /\ gcall.fn = "log") =>
          \A sl \in {"y", "mu", "beta"} :
              Cardinality({k \in 1..Len(gwrites) : gwrites[k].slot = sl})
                 = (IF SlotDiff(sl) THEN LongestLength ELSE 0)
    /\ ~gcall.dy => d_x1 = <<>>
    /\ ~gcall.dmu => d_x2 = <<>>
    /\ ~gcall.dbeta => d_x3 = <<>>

C9_Witness ==
    /\ gpc = "done" /\ gout = "value" /\ gcall.fn = "log"
    /\ gcall.dy /\ ~gcall.y.vec
    /\ gcall.dmu /\ gcall.mu.vec /\ Len(gcall.mu.x) = 2
    /\ ~gcall.dbeta
    /\ Cardinality(WritesTo("y", 0)) = 2
    /\ Cardinality(WritesTo("mu", 1)) = 1

ViewArg(a) ==
    IF a = "y_vec" THEN gcall.y ELSE IF a = "mu_vec" THEN gcall.mu ELSE gcall.beta

\* C10 as stated: in a gumbel_log call that passes validation every index used
\* on y_vec, mu_vec, beta_vec, inv_beta or log_beta lies below the length the
\* view was declared with, and every inv_beta or log_beta element read was
\* written by the precompute loop, also for a scalar scale with N > 1.
C10_Original ==
    gcall.fn = "log" => \A a \in gacc : a.i < a.len /\ a.ok

\* C10 amended: every index used on a view or buffer over a sequence lies
\* below its length; a view or buffer over a scalar, declared with length 1,
\* is indexed with every n < N and yields its one element; every inv_beta or
\* log_beta element read by the reduction was written by the precompute loop.
C10_IndicesAndReads ==
    gcall.fn = "log" =>
        \A a \in gacc :
            /\ a.ok
            /\ a.i < LongestLength
            /\ a.len = Len(ViewArg(a.a).x)
            /\ IF ViewArg(a.a).vec THEN a.i < a.len ELSE a.len = 1

C10_Witness ==
    /\ gcall.fn = "log"
    /\ gpc = "done" /\ gout = "value"
    /\ ~gcall.beta.vec
    /\ gcall.y.vec /\ Len(gcall.y.x) = 2
    /\ [a |-> "inv_beta", i |-> 1, len |-> 1, ok |-> TRUE] \in gacc
    /\ [a |-> "y_vec", i |-> 1, len |-> 2, ok |-> TRUE] \in gacc

====
